---------------------------- MODULE Spec2Model ----------------------------
(***************************************************************************)
(* A model of app.py: the account system (register, login, logout over a   *)
(* signed session cookie), the comment board and the contact-form store.   *)
(*                                                                         *)
(* Each browser (client) holds one session cookie and has at most one      *)
(* request in flight; requests of different clients interleave.  A handler *)
(* that issues one statement is one step.  register_user reads (line 175)  *)
(* and later writes (line 181), and post_comment stamps created_at in the  *)
(* application (line 74) before the row is committed (line 235): each is   *)
(* two steps, and other clients' steps may fall between them.              *)
(***************************************************************************)
EXTENDS Integers, Sequences, FiniteSets

VARIABLES
    users,                  \* rows of table "users"
    comments,               \* rows of table "comments"
    contact_form_entries,   \* rows of table "contact_form_entries"
    session,                \* session[c]: the session dict of client c's cookie
    pc,                     \* pc[c]: the request of client c that is in flight
    now,                    \* the latest value datetime.utcnow() returned
    last                    \* the latest response sent, and to whom

vars == <<users, comments, contact_form_entries, session, pc, now, last>>

----------------------------------------------------------------------------
(* Bounds and input sets *)

MaxComments == 1        \* comments stored or in flight, under Spec and SpecSeq
MaxBoardComments == 2   \* the same, under SpecBoard
MaxContacts == 1        \* contact entries stored
MaxClock == 1           \* the clock reads 0..MaxClock
\* The id of a users row that the store issued once and holds no longer
\* (the tables outlive the process, line 87); ids are issued above it.
GoneUserId == 1

Clients == {"c1", "c2"}
Usernames == {"alice", "bob"}
Passwords == {"pw1", "pw2"}
\* The passwords users register with under Spec and SpecBoard; a login
\* tries every password, so both a right and a wrong one are tried.  Under
\* SpecSeq users register with every password.
RegisterPasswords == {"pw1"}
Texts == {"hi"}
ContactInputs == {[name |-> "x", email |-> "y@z.com", message |-> "hi"]}

----------------------------------------------------------------------------
(* The storage layer *)

\* The column without unique=True.
UniqueViolationMutant(rows, username) == FALSE
\* Column(String(255), unique=True): the unique index refuses a second row
\* with the same username.
UniqueViolation(rows, username) == \E u \in rows : u.username = username

\* Column(Integer, primary_key=True): AUTO_INCREMENT issues the next id.
NextUserId(rows) == GoneUserId + Cardinality(rows) + 1
NextCommentId(rows) == Cardinality(rows) + 1
NextEntryId(rows) == Cardinality(rows) + 1

\* Query.first(): the empty set for None, else the set of the one row taken.
first(rows) ==
    IF rows = {} THEN {}
    ELSE {CHOOSE r \in rows : \A q \in rows : r.id <= q.id}

\* The row of a non-empty first() result.
the(row) == CHOOSE r \in row : TRUE

----------------------------------------------------------------------------
(* Authentication functions *)

\* A lookup that finds nobody.
get_user_from_dbMutant(username) == {}
get_user_from_db(username) ==
    first({u \in users : u.username = username})

\* pwd_context.hash: a one-way value that is not the plaintext.
get_password_hash(password) == <<"bcrypt", password>>

\* A verification that accepts any password.
verify_passwordMutant(plain_password, hashed_password) == TRUE
verify_password(plain_password, hashed_password) ==
    hashed_password = get_password_hash(plain_password)

\* request.session.get("user_id"): 0 stands for None (both are falsy at
\* line 116, and no id is 0).
session_get(s, key) ==
    IF \E kv \in s : kv[1] = key
    THEN (CHOOSE kv \in s : kv[1] = key)[2]
    ELSE 0

\* The query without its filter on the session's user_id.
get_current_user_from_sessionMutant(c) ==
    first(users)
get_current_user_from_session(c) ==
    LET user_id == session_get(session[c], "user_id")
    IN  IF user_id # 0
        THEN first({u \in users : u.id = user_id})
        ELSE {}

----------------------------------------------------------------------------
(* Responses *)

Response(c, op, status, target, user, listing) ==
    [c |-> c, op |-> op, status |-> status, target |-> target,
     user |-> user, listing |-> listing]

RedirectResponse(c, op, url) == Response(c, op, 303, url, {}, <<>>)
TemplateResponse(c, op, name, user, listing) ==
    Response(c, op, 200, name, user, listing)
HTTPException(c, op, status, detail) == Response(c, op, status, detail, {}, <<>>)
\* An exception no handler catches: the framework's 500 response.
ServerError(c, op) == Response(c, op, 500, "Internal Server Error", {}, <<>>)

Idle == [op |-> "idle"]
IsIdle(c) == pc[c].op = "idle"

----------------------------------------------------------------------------
Init ==
    /\ users = {}
    /\ comments = {}
    /\ contact_form_entries = {}
    /\ session \in [Clients -> {{}, {<<"user_id", GoneUserId>>}}]
    /\ pc = [c \in Clients |-> Idle]
    /\ now = 0
    /\ last = Response("none", "startup", 0, "", {}, <<>>)

----------------------------------------------------------------------------
(* Routes *)

\* POST /contact
submit_contact_form(c, form) ==
    /\ IsIdle(c)
    /\ LET new_entry == [id |-> NextEntryId(contact_form_entries),
                         name |-> form.name, email |-> form.email,
                         message |-> form.message]
       IN  contact_form_entries' = contact_form_entries \cup {new_entry}
    /\ last' = RedirectResponse(c, "submit_contact_form", "/thank-you")
    /\ UNCHANGED <<users, comments, session, pc, now>>

\* POST /register, lines 175-176: the existence pre-check.
register_user(c, username, password) ==
    /\ IsIdle(c)
    /\ UNCHANGED <<users, comments, contact_form_entries, session, now>>
    /\ IF get_user_from_db(username) # {}
       THEN /\ last' = HTTPException(c, "register_user", 400,
                                     "Username already registered")
            /\ UNCHANGED pc
       ELSE /\ pc' = [pc EXCEPT ![c] = [op |-> "register_user",
                                        username |-> username,
                                        password |-> password]]
            /\ UNCHANGED last

\* The assignment of line 182 or 204 left out.
session_setMutant(s, key, value) == s

\* request.session["user_id"] = value
session_set(s, key, value) == {kv \in s : kv[1] # key} \cup {<<key, value>>}

\* POST /register, lines 178-183: the insert, then the session.  db.commit()
\* raises IntegrityError when the unique index refuses the row; nothing
\* catches it, so line 182 is not reached.
register_user_commit(c) ==
    /\ pc[c].op = "register_user"
    /\ pc' = [pc EXCEPT ![c] = Idle]
    /\ IF UniqueViolation(users, pc[c].username)
       THEN /\ last' = ServerError(c, "register_user")
            /\ UNCHANGED <<users, session>>
       ELSE LET new_user ==
                    [id |-> NextUserId(users),
                     username |-> pc[c].username,
                     hashed_password |-> get_password_hash(pc[c].password)]
            IN  /\ users' = users \cup {new_user}
                /\ session' = [session EXCEPT
                                 ![c] = session_set(@, "user_id", new_user.id)]
                /\ last' = RedirectResponse(c, "register_user", "/comments")
    /\ UNCHANGED <<comments, contact_form_entries, now>>

\* An unknown username answered with an error of its own.
login_resultMutant(c, username, password) ==
    LET user == get_user_from_db(username)
    IN  IF user = {}
        THEN [resp |-> HTTPException(c, "login_user", 404, "No such user"),
              session |-> session[c]]
        ELSE IF ~verify_password(password, the(user).hashed_password)
        THEN [resp |-> TemplateResponse(c, "login_user", "login-error.html",
                                        {}, <<>>),
              session |-> session[c]]
        ELSE [resp |-> RedirectResponse(c, "login_user", "/comments"),
              session |-> session_set(session[c], "user_id", the(user).id)]

\* POST /login: what the handler answers and what it leaves in the session.
login_result(c, username, password) ==
    LET user == get_user_from_db(username)
    IN  IF user = {} \/ ~verify_password(password, the(user).hashed_password)
        THEN [resp |-> TemplateResponse(c, "login_user", "login-error.html",
                                        {}, <<>>),
              session |-> session[c]]
        ELSE [resp |-> RedirectResponse(c, "login_user", "/comments"),
              session |-> session_set(session[c], "user_id", the(user).id)]

login_user(c, username, password) ==
    /\ IsIdle(c)
    /\ UNCHANGED <<users, comments, contact_form_entries, pc, now>>
    /\ LET result == login_result(c, username, password)
       IN  /\ session' = [session EXCEPT ![c] = result.session]
           /\ last' = result.resp

\* A logout that answers without clearing the session.
logout_userMutant(c) ==
    /\ IsIdle(c)
    /\ last' = RedirectResponse(c, "logout_user", "/")
    /\ UNCHANGED <<users, comments, contact_form_entries, session, pc, now>>

\* GET /logout: request.session.clear()
logout_user(c) ==
    /\ IsIdle(c)
    /\ session' = [session EXCEPT ![c] = {}]
    /\ last' = RedirectResponse(c, "logout_user", "/")
    /\ UNCHANGED <<users, comments, contact_form_entries, pc, now>>

\* order_by(Comment.created_at.desc()).all(): every order of the rows in
\* which created_at never increases; rows with equal created_at come in an
\* order the query does not fix.
order_by_created_at_desc(rows) ==
    {s \in [1..Cardinality(rows) -> rows] :
        /\ \A i, j \in 1..Cardinality(rows) : i # j => s[i] # s[j]
        /\ \A i, j \in 1..Cardinality(rows) :
               i < j => s[i].created_at >= s[j].created_at}

\* GET /comments: the listing, rendered with the optional user context
\* (home, about, show_contact_form and show_thank_you_page render a fixed
\* page with the same context and touch no table).
get_comments(c) ==
    /\ IsIdle(c)
    /\ \E listing \in order_by_created_at_desc(comments) :
           last' = TemplateResponse(c, "get_comments", "comments.html",
                                    get_current_user_from_session(c), listing)
    /\ UNCHANGED <<users, comments, contact_form_entries, session, pc, now>>

\* datetime.utcnow(): the clock never runs backwards, and two calls may
\* return the same value (DateTime keeps no fraction of a second).
utcnow == now..MaxClock

\* The handler without the check of lines 230-231.
post_commentMutant(c, comment_text) ==
    /\ IsIdle(c)
    /\ \E t \in now..MaxClock :
           /\ now' = t
           /\ pc' = [pc EXCEPT ![c] =
                        [op |-> "post_comment", text |-> comment_text,
                         created_at |-> t,
                         user_id |-> session_get(session[c], "user_id")]]
    /\ UNCHANGED <<users, comments, contact_form_entries, session, last>>

\* POST /comments, lines 225-233: the current user is resolved, then the
\* row is built; its created_at default (line 74) is taken from the clock
\* of the application before the INSERT is sent.
post_comment(c, comment_text) ==
    /\ IsIdle(c)
    /\ LET user == get_current_user_from_session(c)
       IN  IF user = {}
           THEN /\ last' = HTTPException(c, "post_comment", 401,
                               "You must be logged in to post a comment")
                /\ UNCHANGED <<pc, now>>
           ELSE /\ \E t \in utcnow :
                       /\ now' = t
                       /\ pc' = [pc EXCEPT ![c] = [op |-> "post_comment",
                                                   text |-> comment_text,
                                                   created_at |-> t,
                                                   user_id |-> the(user).id]]
                /\ UNCHANGED last
    /\ UNCHANGED <<users, comments, contact_form_entries, session>>

\* POST /comments, lines 234-236: the row is committed and becomes visible.
post_comment_commit(c) ==
    /\ pc[c].op = "post_comment"
    /\ pc' = [pc EXCEPT ![c] = Idle]
    /\ LET new_comment == [id |-> NextCommentId(comments),
                           text |-> pc[c].text,
                           created_at |-> pc[c].created_at,
                           user_id |-> pc[c].user_id]
       IN  comments' = comments \cup {new_comment}
    /\ last' = RedirectResponse(c, "post_comment", "/comments")
    /\ UNCHANGED <<users, contact_form_entries, session, now>>

----------------------------------------------------------------------------
(* Specifications *)

\* Comments stored or in flight.
InFlightComments == Cardinality({c \in Clients : pc[c].op = "post_comment"})

\* A request that would store a comment is let in while fewer than max are
\* stored or in flight; a request that is rejected is always let in.
CommentRoom(c, max) ==
    \/ get_current_user_from_session(c) = {}
    \/ Cardinality(comments) + InFlightComments < max

ContactRoom == Cardinality(contact_form_entries) < MaxContacts

\* Every handler, the requests of different clients interleaved.
Next ==
    \/ \E c \in Clients : \E form \in ContactInputs :
           ContactRoom /\ submit_contact_form(c, form)
    \/ \E c \in Clients : \E u \in Usernames : \E p \in RegisterPasswords :
           register_user(c, u, p)
    \/ \E c \in Clients : register_user_commit(c)
    \/ \E c \in Clients : \E u \in Usernames : \E p \in Passwords :
           login_user(c, u, p)
    \/ \E c \in Clients : logout_user(c)
    \/ \E c \in Clients : get_comments(c)
    \/ \E c \in Clients : \E t \in Texts :
           CommentRoom(c, MaxComments) /\ post_comment(c, t)
    \/ \E c \in Clients : post_comment_commit(c)

Spec == Init /\ [][Next]_vars

\* One request at a time: a request starts only when none is in flight.
NoneInFlight == \A c \in Clients : IsIdle(c)

NextSeq ==
    \/ \E c \in Clients : \E form \in ContactInputs :
           NoneInFlight /\ ContactRoom /\ submit_contact_form(c, form)
    \/ \E c \in Clients : \E u \in Usernames : \E p \in Passwords :
           NoneInFlight /\ register_user(c, u, p)
    \/ \E c \in Clients : register_user_commit(c)
    \/ \E c \in Clients : \E u \in Usernames : \E p \in Passwords :
           NoneInFlight /\ login_user(c, u, p)
    \/ \E c \in Clients : NoneInFlight /\ logout_user(c)
    \/ \E c \in Clients : NoneInFlight /\ get_comments(c)
    \/ \E c \in Clients : \E t \in Texts :
           NoneInFlight /\ CommentRoom(c, MaxComments) /\ post_comment(c, t)
    \/ \E c \in Clients : post_comment_commit(c)

SpecSeq == Init /\ [][NextSeq]_vars

\* The comment board: clients register, post and read the listing,
\* interleaved, with room for MaxBoardComments comments.
NextBoard ==
    \/ \E c \in Clients : \E u \in Usernames : \E p \in RegisterPasswords :
           register_user(c, u, p)
    \/ \E c \in Clients : register_user_commit(c)
    \/ \E c \in Clients : get_comments(c)
    \/ \E c \in Clients : \E t \in Texts :
           CommentRoom(c, MaxBoardComments) /\ post_comment(c, t)
    \/ \E c \in Clients : post_comment_commit(c)

SpecBoard == Init /\ [][NextBoard]_vars

----------------------------------------------------------------------------
(* Properties *)

\* The session of client c names no existing user: it holds no user_id, or
\* one that no row of users has.
NoCurrentUser(c) ==
    \/ \A kv \in session[c] : kv[1] # "user_id"
    \/ \A u \in users : <<"user_id", u.id>> \notin session[c]

Unauthorized(c) ==
    HTTPException(c, "post_comment", 401,
                  "You must be logged in to post a comment")

\* C1: a POST /comments whose session resolves to no current user (no
\* user_id, or a user_id of no existing user) is answered 401, whatever the
\* comment text, and leaves the comments, the users, the sessions and the
\* requests in flight as they were.
C1_UnauthorizedPostRejected ==
    [][\A c \in Clients : \A t \in Texts :
          (post_comment(c, t) /\ NoCurrentUser(c)) =>
              /\ last' = Unauthorized(c)
              /\ UNCHANGED <<comments, users, session, pc,
                             contact_form_entries>>]_vars

\* C1 witness: a client whose cookie names a user that does not exist has
\* just been refused.
C1_Witness ==
    /\ last.op = "post_comment" /\ last.status = 401
    /\ session[last.c] # {}
    /\ users # {}

\* C2 (as claimed): a POST /register ends in success or, for the loser of a
\* race on one username, in the 400 DuplicateUsername rejection, never in
\* another failure.
C2_Original ==
    last.op = "register_user" => last.status \in {303, 400}

\* C3: no two stored users have the same username, and no two the same id.
C3_UsersUnique ==
    \A u1, u2 \in users :
        (u1.username = u2.username \/ u1.id = u2.id) => u1 = u2

\* C3 witness: two registrations of one username raced and the unique index
\* refused the second, with both usernames stored.
C3_Witness ==
    /\ last.op = "register_user" /\ last.status = 500
    /\ Cardinality(users) = Cardinality(Usernames)

DuplicateUsername(c) ==
    HTTPException(c, "register_user", 400, "Username already registered")

\* C4: with one request at a time, a POST /register of a username no user
\* has goes on to add exactly one user of that username and succeeds; a
\* POST /register of a username some user has is answered 400, whatever the
\* password, and leaves the users (their password hashes with them) and the
\* sessions as they were; and no user is ever removed or altered, so the
\* username stays taken.
C4_RegisterTwice ==
    [][/\ \A c \in Clients : \A u \in Usernames : \A p \in Passwords :
              register_user(c, u, p) =>
                  IF \E usr \in users : usr.username = u
                  THEN /\ last' = DuplicateUsername(c)
                       /\ UNCHANGED <<users, session, pc>>
                  ELSE /\ pc'[c].op = "register_user"
                       /\ UNCHANGED <<users, session>>
       /\ \A c \in Clients :
              register_user_commit(c) =>
                  /\ last' = RedirectResponse(c, "register_user", "/comments")
                  /\ \E new \in users' :
                         /\ users' = users \cup {new}
                         /\ new.username = pc[c].username
                         /\ \A usr \in users : usr.username # new.username
       /\ users \subseteq users']_vars

\* C4 witness: a registration of a taken username has just been refused.
C4_Witness ==
    /\ last.op = "register_user" /\ last.status = 400
    /\ users # {}

\* C5: every stored comment's owner is an existing user, and a comment is
\* stored with the user id that the poster's session holds.
C5_CommentOwner ==
    /\ [](\A m \in comments : \E u \in users : u.id = m.user_id)
    /\ [][\A c \in Clients :
             post_comment_commit(c) =>
                 \E m \in comments' :
                     /\ comments' = comments \cup {m}
                     /\ m \notin comments
                     /\ <<"user_id", m.user_id>> \in session[c]
                     /\ \E u \in users : u.id = m.user_id]_vars

\* C5 witness: a comment is stored while its poster is not the first user.
C5_Witness ==
    /\ last.op = "post_comment" /\ last.status = 303
    /\ \E m \in comments : \E u \in users : u.id < m.user_id

\* C6: a successful POST /register or POST /login leaves in the session
\* exactly the id of the user created or verified, whatever it held, so
\* that the session then resolves to that user; and a session gets a
\* subject from no other step.
C6_SessionSubject ==
    [][/\ \A c \in Clients :
              (last'.status = 303 /\ register_user_commit(c)) =>
                  \E u \in users' \ users :
                      /\ u.username = pc[c].username
                      /\ session'[c] = {<<"user_id", u.id>>}
                      /\ get_current_user_from_session(c)' = {u}
       /\ \A c \in Clients : \A n \in Usernames : \A p \in Passwords :
              (last'.status = 303 /\ login_user(c, n, p)) =>
                  \E u \in users :
                      /\ u.username = n
                      /\ u.hashed_password = get_password_hash(p)
                      /\ session'[c] = {<<"user_id", u.id>>}
                      /\ get_current_user_from_session(c)' = {u}
       /\ \A c \in Clients :
              (session'[c] # session[c] /\ session'[c] # {}) =>
                  /\ last'.c = c
                  /\ last'.op \in {"register_user", "login_user"}
                  /\ last'.status = 303
                  /\ \A d \in Clients \ {c} : session'[d] = session[d]]_vars

\* C6 witness: a login has replaced the subject of a session by another
\* user.
C6_Witness ==
    /\ last.op = "login_user" /\ last.status = 303
    /\ \E u \in users :
           /\ session[last.c] = {<<"user_id", u.id>>}
           /\ \E v \in users : v.id > u.id

\* C7: GET /logout empties the session and redirects to the home view from
\* any session, touching no table and no other session; the session then
\* resolves to no user, and stays empty until a register or login succeeds
\* on it; a logout of an empty session changes nothing but the response.
C7_Logout ==
    [][/\ \A c \in Clients :
              logout_user(c) =>
                  /\ session'[c] = {}
                  /\ last' = RedirectResponse(c, "logout_user", "/")
                  /\ get_current_user_from_session(c)' = {}
                  /\ \A d \in Clients \ {c} : session'[d] = session[d]
                  /\ (session[c] = {} => session' = session)
                  /\ UNCHANGED <<users, comments, contact_form_entries, pc>>
       /\ \A c \in Clients :
              IsIdle(c) => ENABLED logout_user(c)
       /\ \A c \in Clients :
              (session[c] = {} /\ session'[c] # {}) =>
                  /\ last'.c = c
                  /\ last'.op \in {"register_user", "login_user"}
                  /\ last'.status = 303]_vars

\* C7 witness: a logged-in client has logged out.
C7_Witness ==
    /\ last.op = "logout_user"
    /\ session[last.c] = {}
    /\ users # {}
    /\ \E d \in Clients : session[d] # {} /\ ~NoCurrentUser(d)

\* The credentials match no stored user.
InvalidCredentials(username, password) ==
    \A u \in users :
        u.username # username \/ u.hashed_password # get_password_hash(password)

LoginError(c) ==
    TemplateResponse(c, "login_user", "login-error.html", {}, <<>>)

\* C8: a POST /login with an unknown username or a wrong password renders
\* the login-error page (status 200, no redirect) and leaves the sessions
\* and the tables as they were; a session with no current user still has
\* none: get_current_user_from_session, on which POST /comments decides,
\* resolves it to None.
C8_FailedLogin ==
    [][\A c \in Clients : \A n \in Usernames : \A p \in Passwords :
          (InvalidCredentials(n, p) /\ login_user(c, n, p)) =>
              /\ last' = LoginError(c)
              /\ UNCHANGED <<session, users, comments, contact_form_entries,
                             pc>>
              /\ (NoCurrentUser(c) =>
                      (get_current_user_from_session(c) = {})')]_vars


\* C8 witness: a client without a session has failed to log in while a
\* user exists.
C8_Witness ==
    /\ last = LoginError(last.c)
    /\ session[last.c] = {}
    /\ users # {}

\* C9: in every state, a POST /login that names no user and a POST /login
\* that names a user with a wrong password get the same response and leave
\* the same session.
C9_LoginIndistinguishable ==
    \A c \in Clients : \A n1, n2 \in Usernames : \A p1, p2 \in Passwords :
        ( /\ \A u \in users : u.username # n1
          /\ \E u \in users :
                 /\ u.username = n2
                 /\ u.hashed_password # get_password_hash(p2) )
        => login_result(c, n1, p1) = login_result(c, n2, p2)

\* C9 witness: a login has just failed while one username is taken and
\* the other is free, so that both kinds of failure exist.
C9_Witness ==
    /\ last = LoginError(last.c)
    /\ Cardinality(users) = 1
    /\ session[last.c] # {}

\* The comment stored last (ids are issued in the order of the inserts).
Newest(rows) == CHOOSE m \in rows : \A q \in rows : q.id <= m.id

\* C10 (as claimed): a post stores exactly one comment, owned by the
\* poster, whose created_at is at least that of every comment stored
\* before; and a listing shows the comment stored last first.
C10_Original ==
    [][/\ \A c \in Clients :
              post_comment_commit(c) =>
                  \E m \in comments' :
                      /\ comments' = comments \cup {m}
                      /\ m \notin comments
                      /\ <<"user_id", m.user_id>> \in session[c]
                      /\ \A q \in comments : q.created_at <= m.created_at
       /\ \A c \in Clients :
              (get_comments(c) /\ comments # {}) =>
                  last'.listing[1] = Newest(comments)]_vars

=============================================================================
